---- MODULE Spec2Model ----
(***************************************************************************)
(* Model of the availability scan in src/app/api/generate-names/route.ts:  *)
(* the POST handler's ReadableStream.start callback, its checkDomainTask   *)
(* closure and isDomainAvailable.                                          *)
(*                                                                         *)
(* One JavaScript job runs to completion before the next one starts, so    *)
(* the scan is a coroutine (pc) that is suspended only at its two awaits   *)
(* (Promise.race, Promise.all); the continuation of a lookup               *)
(* (checkDomainTask after `await isDomainAvailable`) runs as one atomic    *)
(* step while the scan is suspended or has returned.                       *)
(***************************************************************************)
EXTENDS Integers, Sequences, FiniteSets, TLC

\* ------------------------------------------------------------------ bounds
MaxNames == 4
MaxLimit == 2
MaxCap == 2

\* ------------------------------------------------- constants of the handler
HandlerMaxResults == 10
HandlerConcurrencyLimit == 5

\* The two texts the handler enqueues when nothing is available.  The
\* leading warning sign and variation selector of the source literals are
\* written "(!)" here; the rest is the literal text.
SentinelNoNames == "(!) No available domains found this time.\n"
SentinelNoneFound == "(!) No available domains found this time. Please try again.\n"

\* ------------------------------------------------------------- candidates
\* Candidate strings as the extractor's filter leaves them (".com" suffix,
\* allowed characters, at most 30 characters).  The list is not
\* deduplicated, so the fifth candidate repeats the first.
DomainPool == <<"alfa.com", "beta.com", "gamma.com", "delta.com">>

NamesOfLength(n) == [i \in 1..n |-> DomainPool[((i - 1) % Len(DomainPool)) + 1]]

\* ------------------------------------------------- the lookup's responses
\* What `fetch` + `res.json()` can produce for one lookup.  status 0 stands
\* for a fetch that rejects (no response at all).  The body is what
\* res.json() yields:
\*   "not_json"   res.json() rejects (body is not JSON)
\*   "null"       the JSON value null (data.domains throws a TypeError)
\*   "no_domains" a JSON object without a `domains` member
\*   "no_length"  an object whose `domains` is truthy but has no length
\*                (e.g. { domains: {} }): `undefined > 0` is false
\*   "empty"      { domains: [] }
\*   "matches"    { domains: [ ...one or more... ] }
Bodies == {"not_json", "null", "no_domains", "no_length", "empty", "matches"}

Statuses == {200, 404, 500}

NetworkError == [status |-> 0, body |-> "none"]

\* marks "no lookup has completed yet" in lastResp
NoResponse == [status |-> -1, body |-> "none"]

Responses == {NetworkError} \cup [status : Statuses, body : Bodies]

\* try-block of isDomainAvailable raises: fetch rejects, res.json() rejects,
\* or `data.domains` is read off null.
LookupThrows(resp) ==
    \/ resp = NetworkError
    \/ resp.body = "not_json"
    \/ resp.body = "null"

\* data.domains && data.domains.length > 0
DomainsNonEmpty(resp) == resp.body = "matches"

isDomainAvailable_FailOpen(resp) ==
    IF LookupThrows(resp) THEN TRUE ELSE ~DomainsNonEmpty(resp)

isDomainAvailable_ChecksOk(resp) ==
    IF LookupThrows(resp) THEN FALSE
    ELSE resp.status = 200 /\ ~DomainsNonEmpty(resp)

isDomainAvailable(resp) ==
    IF LookupThrows(resp) THEN FALSE ELSE ~DomainsNonEmpty(resp)

\* ------------------------------------------------------------------ state
VARIABLES
    names,            \* the extracted candidate list
    maxResults,       \* const maxResults
    concurrencyLimit, \* const concurrencyLimit
    pc,               \* position of the start() coroutine
    currentIndex,     \* let currentIndex (0-based count of launched names)
    tasks,            \* const tasks: positions whose promise is in the array
    lookup,           \* per position: "idle", "inflight", "available", "unavailable"
    foundCount,       \* let foundCount
    out,              \* chunks enqueued on the controller, in order
    closed,           \* controller.close() has run
    threw,            \* an enqueue was attempted on the closed controller
    lastResp,         \* response of the most recently completed lookup
    lastAnswer,       \* what isDomainAvailable returned for it
    rawText,          \* extractor: const rawText, as a sequence of characters
    rawLines,         \* extractor: rawText.split("\n")
    cleaned,          \* extractor: the array .map(...) builds, so far
    version,          \* client: which of the two Home components runs
    stream,           \* client: the response body, as characters
    delivered,        \* client: how much of it reader.read() has delivered
    buffer,           \* client: let buffer
    domains,          \* client: the rows of the `domains` state
    errorMsg          \* client: errorMsg / status.errorMsg

\* the scan's variables other than names and pc
scanVars == <<maxResults, concurrencyLimit, currentIndex, tasks, lookup,
              foundCount, out, closed, threw, lastResp, lastAnswer>>

extractVars == <<rawText, rawLines, cleaned>>

clientVars == <<version, stream, delivered, buffer, domains, errorMsg>>

vars == <<names, pc, scanVars, extractVars, clientVars>>

Positions == 1..Len(names)

Settled(i) == lookup[i] \in {"available", "unavailable"}

InFlight == {i \in Positions : lookup[i] = "inflight"}

Line(i) == names[i] \o "\n"

Configs ==
    ((1..MaxCap) \X (1..MaxLimit)) \cup {<<HandlerMaxResults, HandlerConcurrencyLimit>>}

Init ==
    /\ \E n \in 0..MaxNames : names = NamesOfLength(n)
    /\ \E c \in Configs : maxResults = c[1] /\ concurrencyLimit = c[2]
    /\ pc = "start"
    /\ currentIndex = 0
    /\ tasks = <<>>
    /\ lookup = [i \in 1..Len(names) |-> "idle"]
    /\ foundCount = 0
    /\ out = <<>>
    /\ closed = FALSE
    /\ threw = FALSE
    /\ lastResp = NoResponse
    /\ lastAnswer = FALSE
    /\ rawText = <<>>
    /\ rawLines = <<>>
    /\ cleaned = <<>>
    /\ version = 2
    /\ stream = <<>>
    /\ delivered = 0
    /\ buffer = <<>>
    /\ domains = <<>>
    /\ errorMsg = <<>>

\* ------------------------------------------------------- the scan's tests
\* while (currentIndex < names.length && foundCount < maxResults)
WhileCond_OffByOne == currentIndex < Len(names) - 1 /\ foundCount < maxResults

WhileCond == currentIndex < Len(names) /\ foundCount < maxResults

FillCond_NoLimit == currentIndex < Len(names) /\ foundCount < maxResults

\* while (tasks.length < concurrencyLimit && currentIndex < names.length
\*        && foundCount < maxResults)
FillCond ==
    /\ Len(tasks) < concurrencyLimit
    /\ currentIndex < Len(names)
    /\ foundCount < maxResults

ShouldEmit_NoCap(available) == available

\* if (available && foundCount < maxResults)
ShouldEmit(available) == available /\ foundCount < maxResults

\* if (foundCount === 0)
NoneFound == foundCount = 0

Shift_None(s) == s

\* tasks.shift(): drops the first promise of the array, whichever settled
Shift(s) == Tail(s)

LaunchedPosition_Stale == IF currentIndex = 0 THEN 1 ELSE currentIndex

\* const domain = names[currentIndex]; currentIndex++ : the 1-based position
\* of the candidate whose lookup is started
LaunchedPosition == currentIndex + 1

\* Promise.race(tasks) is settled
RaceSettled == \E k \in 1..Len(tasks) : Settled(tasks[k])

\* Promise.all(tasks) is settled
AllSettled == \A k \in 1..Len(tasks) : Settled(tasks[k])

\* ---------------------------------------------------------------- actions
\* start(controller) is entered: the empty-names branch, or the scan begins
StartEmpty ==
    /\ pc = "start"
    /\ Len(names) = 0
    /\ out' = Append(out, SentinelNoNames)
    /\ closed' = TRUE
    /\ pc' = "closed"
    /\ UNCHANGED <<names, maxResults, concurrencyLimit, currentIndex, tasks,
                   lookup, foundCount, threw, lastResp, lastAnswer>>
    /\ UNCHANGED <<extractVars, clientVars>>

StartScan ==
    /\ pc = "start"
    /\ Len(names) # 0
    /\ pc' = "while"
    /\ UNCHANGED <<names, maxResults, concurrencyLimit, currentIndex, tasks,
                   lookup, foundCount, out, closed, threw, lastResp, lastAnswer>>
    /\ UNCHANGED <<extractVars, clientVars>>

\* the outer while test
WhileTest ==
    /\ pc = "while"
    /\ pc' = IF WhileCond THEN "fill" ELSE "all"
    /\ UNCHANGED <<names, maxResults, concurrencyLimit, currentIndex, tasks,
                   lookup, foundCount, out, closed, threw, lastResp, lastAnswer>>
    /\ UNCHANGED <<extractVars, clientVars>>

\* one iteration of the fill loop: checkDomainTask(names[currentIndex]) runs
\* up to its await, i.e. the fetch is issued
Launch ==
    /\ pc = "fill"
    /\ FillCond
    /\ currentIndex' = currentIndex + 1
    /\ lookup' = [lookup EXCEPT ![LaunchedPosition] = "inflight"]
    /\ tasks' = Append(tasks, LaunchedPosition)
    /\ UNCHANGED <<names, maxResults, concurrencyLimit, pc, foundCount, out,
                   closed, threw, lastResp, lastAnswer>>
    /\ UNCHANGED <<extractVars, clientVars>>

\* the fill loop ends; `if (tasks.length > 0) await Promise.race(tasks)`
FillDone ==
    /\ pc = "fill"
    /\ ~FillCond
    /\ pc' = IF Len(tasks) > 0 THEN "race" ELSE "while"
    /\ UNCHANGED <<names, maxResults, concurrencyLimit, currentIndex, tasks,
                   lookup, foundCount, out, closed, threw, lastResp, lastAnswer>>
    /\ UNCHANGED <<extractVars, clientVars>>

\* the await on Promise.race resumes; tasks.shift()
RaceResume ==
    /\ pc = "race"
    /\ RaceSettled
    /\ tasks' = Shift(tasks)
    /\ pc' = "while"
    /\ UNCHANGED <<names, maxResults, concurrencyLimit, currentIndex, lookup,
                   foundCount, out, closed, threw, lastResp, lastAnswer>>
    /\ UNCHANGED <<extractVars, clientVars>>

\* the await on Promise.all resumes; sentinel if nothing found; close
AllResume ==
    /\ pc = "all"
    /\ AllSettled
    /\ out' = IF NoneFound THEN Append(out, SentinelNoneFound) ELSE out
    /\ closed' = TRUE
    /\ pc' = "closed"
    /\ UNCHANGED <<names, maxResults, concurrencyLimit, currentIndex, tasks,
                   lookup, foundCount, threw, lastResp, lastAnswer>>
    /\ UNCHANGED <<extractVars, clientVars>>

\* a lookup completes with response resp and checkDomainTask continues.
\* On a closed controller enqueue throws after foundCount was incremented.
Complete(i, resp) ==
    /\ pc \in {"race", "all", "closed"}
    /\ lookup[i] = "inflight"
    /\ LET available == isDomainAvailable(resp) IN
        /\ lookup' = [lookup EXCEPT ![i] =
                         IF available THEN "available" ELSE "unavailable"]
        /\ IF ShouldEmit(available)
           THEN /\ foundCount' = foundCount + 1
                /\ out' = IF closed THEN out ELSE Append(out, Line(i))
                /\ threw' = (threw \/ closed)
           ELSE UNCHANGED <<foundCount, out, threw>>
    /\ lastResp' = resp
    /\ lastAnswer' = isDomainAvailable(resp)
    /\ UNCHANGED <<names, maxResults, concurrencyLimit, pc, currentIndex,
                   tasks, closed>>
    /\ UNCHANGED <<extractVars, clientVars>>

LookupCompletes == \E i \in Positions : \E resp \in Responses : Complete(i, resp)

Next ==
    \/ StartEmpty
    \/ StartScan
    \/ WhileTest
    \/ Launch
    \/ FillDone
    \/ RaceResume
    \/ AllResume
    \/ LookupCompletes

Spec == Init /\ [][Next]_vars

\* The event loop runs every continuation that is ready (the scan's own
\* steps), and every lookup that was started eventually completes.
ScanStep ==
    \/ StartEmpty
    \/ StartScan
    \/ WhileTest
    \/ Launch
    \/ FillDone
    \/ RaceResume
    \/ AllResume

FairSpec == Spec /\ WF_vars(ScanStep) /\ WF_vars(LookupCompletes)

TypeOK ==
    /\ pc \in {"start", "while", "fill", "race", "all", "closed"}
    /\ currentIndex \in 0..Len(names)
    /\ foundCount \in 0..Len(names)
    /\ lookup \in [Positions -> {"idle", "inflight", "available", "unavailable"}]
    /\ closed \in BOOLEAN
    /\ threw \in BOOLEAN
    /\ lastResp \in Responses \cup {NoResponse}
    /\ lastAnswer \in BOOLEAN

\* =================================================== the candidate extractor
\* Text is a sequence of one-character strings.
LowerLetters == <<"a", "b", "c", "d", "e", "f", "g", "h", "i", "j", "k", "l", "m", "n", "o", "p", "q", "r", "s", "t", "u", "v", "w", "x", "y", "z">>

UpperLetters == <<"A", "B", "C", "D", "E", "F", "G", "H", "I", "J", "K", "L", "M", "N", "O", "P", "Q", "R", "S", "T", "U", "V", "W", "X", "Y", "Z">>

Digits == {"0", "1", "2", "3", "4", "5", "6", "7", "8", "9"}

\* \s of the regular expression and the white space String.trim removes,
\* as far as it can occur inside a line
SpaceChars == {" ", "\t", "\r"}

\* the character class [-\d.]
DecorationChars == {"-", "."} \cup Digits

\* the character class [a-zA-Z0-9.-]
AllowedChars ==
    {LowerLetters[k] : k \in 1..26} \cup {UpperLetters[k] : k \in 1..26}
        \cup Digits \cup {".", "-"}

\* String.toLowerCase
ToLowerChar(c) ==
    IF \E k \in 1..26 : UpperLetters[k] = c
    THEN LowerLetters[CHOOSE k \in 1..26 : UpperLetters[k] = c]
    ELSE c

ToLower(line) == [k \in 1..Len(line) |-> ToLowerChar(line[k])]

\* first index from i on whose character is outside class, Len(line) + 1 if none
SkipClass(line, i, class) ==
    CHOOSE j \in i..(Len(line) + 1) :
        /\ \A k \in i..(j - 1) : line[k] \in class
        /\ j = Len(line) + 1 \/ line[j] \notin class

\* line.replace(/^[-\d.]+\s*/, ""): a non-empty leading run of decoration
\* characters and the (possibly empty) run of white space after it
StripDecoration(line) ==
    LET j == SkipClass(line, 1, DecorationChars)
        k == SkipClass(line, j, SpaceChars)
    IN  IF j > 1 THEN SubSeq(line, k, Len(line)) ELSE line

\* String.trim
Trim(line) ==
    LET inner == {k \in 1..Len(line) : line[k] \notin SpaceChars}
    IN  IF inner = {} THEN <<>>
        ELSE SubSeq(line,
                    CHOOSE a \in inner : \A k \in inner : a <= k,
                    CHOOSE b \in inner : \A k \in inner : k <= b)

\* String.endsWith
EndsWith(line, suffix) ==
    /\ Len(line) >= Len(suffix)
    /\ SubSeq(line, Len(line) - Len(suffix) + 1, Len(line)) = suffix

\* String.includes
Includes(line, part) ==
    \E i \in 1..(Len(line) - Len(part) + 1) :
        SubSeq(line, i, i + Len(part) - 1) = part

DotCom == <<".", "c", "o", "m">>

MaxCandidateLen == 30

Keep_NoCharTest(line) ==
    /\ line # <<>>
    /\ EndsWith(ToLower(line), DotCom)
    /\ Len(line) <= MaxCandidateLen

\* the .filter callback: line && line.toLowerCase().endsWith(".com") &&
\* /^[a-zA-Z0-9.-]+$/.test(line) && line.length <= 30
Keep(line) ==
    /\ line # <<>>
    /\ EndsWith(ToLower(line), DotCom)
    /\ \A k \in 1..Len(line) : line[k] \in AllowedChars
    /\ Len(line) <= MaxCandidateLen

\* rawText.split("\n")
RECURSIVE Split(_)
Split(text) ==
    LET breaks == {k \in 1..Len(text) : text[k] = "\n"}
    IN  IF breaks = {} THEN <<text>>
        ELSE LET b == CHOOSE k \in breaks : \A l \in breaks : k <= l
             IN  <<SubSeq(text, 1, b - 1)>> \o Split(SubSeq(text, b + 1, Len(text)))

\* ---- the LLM replies the extractor is run on
MaxLineLen == 5

LineAlphabet == {"m", "M", "o", "c", ".", "1", " "}

RECURSIVE LinesUpTo(_)
LinesUpTo(n) ==
    IF n = 0 THEN {<<>>}
    ELSE LET shorter == LinesUpTo(n - 1)
         IN  shorter \cup {Append(l, c) : l \in shorter, c \in LineAlphabet}

LongName(n) == [k \in 1..n |-> "a"] \o DotCom

SampleLines ==
    { <<"a", "l", "f", "a", ".", "c", "o", "m">>,
      <<"1", ".", " ", "a", "l", "f", "a", ".", "c", "o", "m">>,
      <<"-", " ", "b", "e", "t", "a", ".", "c", "o", "m">>,
      <<"4", "y", "o", "u", ".", "c", "o", "m">>,
      <<"1", "-", "2", ".", "c", "o", "m">>,
      <<"H", "e", "r", "e", " ", "a", "r", "e", " ", "n", "a", "m", "e", "s", ".", "c", "o", "m">>,
      <<"b", "a", "s", "e", "d", " ", "o", "n", ".", "c", "o", "m">>,
      <<"A", "L", "F", "A", ".", "C", "O", "M">>,
      <<"a", "l", "f", "a", ".", "c", "o", "m", "\r">>,
      <<" ", " ", "g", "a", "m", "m", "a", ".", "c", "o", "m", " ", " ">>,
      <<"a", "l", "f", "a", ".", "n", "e", "t">>,
      <<>>,
      <<"H", "e", "r", "e", " ", "a", "r", "e", " ", "s", "o", "m", "e", " ", "n", "a", "m", "e", "s", ":">>,
      <<"a", "l", "f", "a", "_", "x", ".", "c", "o", "m">>,
      <<"1", ".">>,
      LongName(MaxCandidateLen - 4), LongName(MaxCandidateLen - 3) }

Texts ==
    LinesUpTo(MaxLineLen) \cup SampleLines
        \cup {l1 \o <<"\n">> \o l2 : l1 \in SampleLines, l2 \in SampleLines}

ExtractInit ==
    /\ rawText \in Texts
    /\ rawLines = <<>>
    /\ cleaned = <<>>
    /\ names = <<>>
    /\ pc = "split"
    /\ maxResults = HandlerMaxResults
    /\ concurrencyLimit = HandlerConcurrencyLimit
    /\ currentIndex = 0
    /\ tasks = <<>>
    /\ lookup = <<>>
    /\ foundCount = 0
    /\ out = <<>>
    /\ closed = FALSE
    /\ threw = FALSE
    /\ lastResp = NoResponse
    /\ lastAnswer = FALSE
    /\ version = 2
    /\ stream = <<>>
    /\ delivered = 0
    /\ buffer = <<>>
    /\ domains = <<>>
    /\ errorMsg = <<>>

\* rawText.split("\n")
SplitText ==
    /\ pc = "split"
    /\ rawLines' = Split(rawText)
    /\ pc' = "map"
    /\ UNCHANGED <<rawText, cleaned, names, scanVars, clientVars>>

\* .map((line) => line.replace(/^[-\d.]+\s*/, "").trim()), one line
MapLine ==
    /\ pc = "map"
    /\ Len(cleaned) < Len(rawLines)
    /\ cleaned' = Append(cleaned, Trim(StripDecoration(rawLines[Len(cleaned) + 1])))
    /\ UNCHANGED <<rawText, rawLines, names, pc, scanVars, clientVars>>

\* .filter(...) over the mapped array; the result is `names`
FilterLines ==
    /\ pc = "map"
    /\ Len(cleaned) = Len(rawLines)
    /\ names' = SelectSeq(cleaned, Keep)
    /\ pc' = "extracted"
    /\ UNCHANGED <<rawText, rawLines, cleaned, scanVars, clientVars>>

ExtractNext ==
    \/ SplitText
    \/ MapLine
    \/ FilterLines

ExtractSpec == ExtractInit /\ [][ExtractNext]_vars

\* ======================================================= the page's reader
\* The two sentinel texts of the handler as character sequences (the same
\* texts as SentinelNoNames and SentinelNoneFound).
SentinelNoNamesChars ==
    <<"(", "!", ")", " ", "N", "o", " ", "a", "v", "a", "i", "l", "a", "b",
      "l", "e", " ", "d", "o", "m", "a", "i", "n", "s", " ", "f", "o", "u",
      "n", "d", " ", "t", "h", "i", "s", " ", "t", "i", "m", "e", ".",
      "\n">>

SentinelNoneFoundChars ==
    <<"(", "!", ")", " ", "N", "o", " ", "a", "v", "a", "i", "l", "a", "b",
      "l", "e", " ", "d", "o", "m", "a", "i", "n", "s", " ", "f", "o", "u",
      "n", "d", " ", "t", "h", "i", "s", " ", "t", "i", "m", "e", ".", " ",
      "P", "l", "e", "a", "s", "e", " ", "t", "r", "y", " ", "a", "g", "a",
      "i", "n", ".", "\n">>

NoAvailableDomains ==
    <<"n", "o", " ", "a", "v", "a", "i", "l", "a", "b", "l", "e", " ", "d",
      "o", "m", "a", "i", "n", "s">>

\* bound on the number of candidate lines in a response body
MaxRows == 2

\* candidates as the handler streams them: strings that passed the filter
StreamedNames ==
    { <<"a", "l", "f", "a">> \o DotCom,
      <<"B", "e", "t", "a", ".", "C", "O", "M">>,
      <<"4", "-", "u">> \o DotCom }

RECURSIVE BodiesOf(_)
BodiesOf(n) ==
    IF n = 0 THEN {<<>>}
    ELSE LET shorter == BodiesOf(n - 1)
         IN  shorter \cup {b \o c \o <<"\n">> : b \in shorter, c \in StreamedNames}

\* what the handler can put on the stream: candidate lines only, or one
\* sentinel line
ResponseBodies ==
    (BodiesOf(MaxRows) \ {<<>>}) \cup {SentinelNoNamesChars, SentinelNoneFoundChars}

ClientInit ==
    /\ version \in {1, 2}
    /\ stream \in ResponseBodies
    /\ delivered = 0
    /\ buffer = <<>>
    /\ domains = <<>>
    /\ errorMsg = <<>>
    /\ pc = "read"
    /\ names = <<>>
    /\ rawText = <<>>
    /\ rawLines = <<>>
    /\ cleaned = <<>>
    /\ maxResults = HandlerMaxResults
    /\ concurrencyLimit = HandlerConcurrencyLimit
    /\ currentIndex = 0
    /\ tasks = <<>>
    /\ lookup = <<>>
    /\ foundCount = 0
    /\ out = <<>>
    /\ closed = FALSE
    /\ threw = FALSE
    /\ lastResp = NoResponse
    /\ lastAnswer = FALSE

\* const clean = line.trim(), for each element of lines
TrimAll(lines) == [k \in 1..Len(lines) |-> Trim(lines[k])]

\* first Home component: every non-empty line becomes a row
IsRowV1(clean) == Len(clean) > 0

\* second Home component: clean && clean.toLowerCase().endsWith(".com")
IsRowV2(clean) == clean # <<>> /\ EndsWith(ToLower(clean), DotCom)

\* second Home component: else if
\* clean.toLowerCase().includes("no available domains")
IsNoticeV2(clean) ==
    ~IsRowV2(clean) /\ Includes(ToLower(clean), NoAvailableDomains)

IsRow(clean) == IF version = 1 THEN IsRowV1(clean) ELSE IsRowV2(clean)

IsNotice(clean) == IF version = 1 THEN FALSE ELSE IsNoticeV2(clean)

\* one pass of the read loop with a chunk of n characters:
\* buffer += decode(value); lines = buffer.split("\n");
\* buffer = lines.pop() || ""; then the for loop over lines
ReadChunk(n) ==
    /\ pc = "read"
    /\ delivered + n <= Len(stream)
    /\ LET text == buffer \o SubSeq(stream, delivered + 1, delivered + n)
           parts == Split(text)
           lines == TrimAll(SubSeq(parts, 1, Len(parts) - 1))
           notices == SelectSeq(lines, IsNotice)
       IN  /\ buffer' = parts[Len(parts)]
           /\ domains' = domains \o SelectSeq(lines, IsRow)
           /\ errorMsg' = IF notices = <<>> THEN errorMsg
                          ELSE notices[Len(notices)]
    /\ delivered' = delivered + n
    /\ UNCHANGED <<version, stream, pc, names, scanVars, extractVars>>

Read == \E n \in 1..Len(stream) : ReadChunk(n)

\* reader.read() reports done: break
ReadDone ==
    /\ pc = "read"
    /\ delivered = Len(stream)
    /\ pc' = "done"
    /\ UNCHANGED <<names, scanVars, extractVars, clientVars>>

ClientNext ==
    \/ Read
    \/ ReadDone

ClientSpec == ClientInit /\ [][ClientNext]_vars

\* ------------------------------------------------------ derived quantities
IsSentinel(chunk) == chunk \in {SentinelNoNames, SentinelNoneFound}

\* the candidate lines on the stream
CandidateLines == SelectSeq(out, LAMBDA chunk : ~IsSentinel(chunk))

OutSet == {out[k] : k \in 1..Len(out)}

\* a lookup continuation ran in this step
CompletedNow(i) == lookup[i] = "inflight" /\ lookup'[i] # "inflight"

\* ------------------------------------------------------------------ claims

C2_Scenario ==
    /\ names = <<"alfa.com", "beta.com", "gamma.com", "delta.com">>
    /\ concurrencyLimit = 2
    /\ maxResults = 2
    /\ \A i \in Positions :
        Settled(i) =>
            (lookup[i] = "available" <=> names[i] \in {"beta.com", "delta.com"})

\* C2: in the scenario, whatever the completion order, the candidate lines
\* on the stream when it is closed are exactly beta.com and delta.com, and at
\* most 4 lookups were started.
C2_ScenarioEmitsBetaDelta ==
    (C2_Scenario /\ closed) =>
        /\ OutSet = {"beta.com\n", "delta.com\n"}
        /\ currentIndex <= 4

\* C3: with at least maxResults candidates and every lookup answering
\* "available", the closed stream holds exactly maxResults candidate lines,
\* each the line of an input candidate.
C3_AllAvailableEmitsExactlyN ==
    (/\ closed
     /\ Len(names) >= maxResults
     /\ \A i \in Positions : lookup[i] # "unavailable")
    => /\ Len(out) = maxResults
       /\ \A k \in 1..Len(out) : \E i \in Positions : out[k] = Line(i)

\* C4: the stream never holds more than maxResults candidate lines, and a
\* lookup that completes as available when foundCount already equals
\* maxResults writes nothing and leaves foundCount alone.
C4_CapAtEmission ==
    /\ [](Len(CandidateLines) <= maxResults)
    /\ [][\A i \in Positions :
            (CompletedNow(i) /\ lookup'[i] = "available" /\ foundCount = maxResults)
                => (out' = out /\ foundCount' = foundCount)]_vars

C4_Witness ==
    /\ foundCount = maxResults
    /\ Len(CandidateLines) = maxResults
    /\ ~threw
    /\ Cardinality({i \in Positions : lookup[i] = "available"}) > maxResults

\* C5: when the candidates are exhausted before foundCount reaches
\* maxResults, the stream is closed only once no started lookup is still in
\* flight.
C5_DrainedBeforeClose ==
    (closed /\ Len(names) > 0 /\ currentIndex = Len(names) /\ foundCount < maxResults)
        => InFlight = {}

C7_TransportErrorIsUnavailable ==
    /\ [][\A i \in Positions :
            (CompletedNow(i) /\ lastResp' = NetworkError)
                => /\ lookup'[i] = "unavailable"
                   /\ out' = out
                   /\ foundCount' = foundCount
                   /\ pc' = pc
                   /\ closed' = closed]_vars
    /\ []((closed /\ Len(names) > 0)
            => (currentIndex = Len(names) \/ foundCount >= maxResults))
    /\ [](pc # "closed" => ENABLED Next)

C7_Witness ==
    /\ closed
    /\ ~threw
    /\ Len(names) >= 3
    /\ lastResp = NetworkError
    /\ \A i \in Positions : Settled(i)
    /\ lookup[Len(names)] = "available"
    /\ Line(Len(names)) \in OutSet

\* C8: for an empty candidate list no lookup is started and the closed
\* stream holds exactly one line, the same sentinel that is written when a
\* non-empty list is exhausted with nothing available.
C8_EmptyListSameSentinel ==
    (closed /\ Len(names) = 0) =>
        /\ currentIndex = 0
        /\ out = <<SentinelNoneFound>>

\* every lookup answered so far said "unavailable"
NoneAvailable == \A i \in Positions : lookup[i] # "available"

\* C9: for a non-empty list whose lookups all answer "unavailable", nothing
\* is written before the close, and the closed stream holds exactly one
\* line, the sentinel, after a lookup was started for every candidate.
C9_AllUnavailableSentinelOnly ==
    (Len(names) > 0 /\ NoneAvailable) =>
        IF closed
        THEN /\ currentIndex = Len(names)
             /\ \A i \in Positions : lookup[i] # "idle"
             /\ out = <<SentinelNoneFound>>
        ELSE out = <<>>

C9_Witness ==
    /\ closed
    /\ Len(names) >= 3
    /\ \A i \in Positions : lookup[i] = "unavailable"
    /\ out = <<SentinelNoneFound>>

\* C10: every lookup start happens in a state where foundCount is below
\* maxResults, the tasks array is shorter than concurrencyLimit and an
\* unconsumed candidate remains; once foundCount has reached maxResults no
\* lookup is started.
C10_LaunchGuard ==
    [][currentIndex' # currentIndex =>
          /\ foundCount < maxResults
          /\ Len(tasks) < concurrencyLimit
          /\ currentIndex < Len(names)
          /\ currentIndex' = currentIndex + 1
          /\ lookup[currentIndex'] = "idle"
          /\ lookup'[currentIndex'] = "inflight"]_vars

C10_Witness ==
    /\ closed
    /\ foundCount >= maxResults
    /\ currentIndex < Len(names)
    /\ lookup[Len(names)] = "idle"

\* C12: nothing is written after the close: no lookup that completes as
\* available increments foundCount or attempts an enqueue once
\* controller.close() has run, and the stream is closed only once.
C12_NoEnqueueAfterClose ==
    /\ [](~threw)
    /\ [][closed => (foundCount' = foundCount /\ out' = out /\ closed')]_vars

\* C13: whenever some candidate's lookup has returned available, the closed
\* stream holds at least one candidate line and no sentinel; and a stream
\* never holds both a sentinel and a candidate line.
C13_SentinelOnlyIfNoneAvailable ==
    /\ (closed /\ \E i \in Positions : lookup[i] = "available")
          => /\ Len(CandidateLines) >= 1
             /\ Len(CandidateLines) = Len(out)
    /\ ~(Len(CandidateLines) >= 1 /\ Len(CandidateLines) < Len(out))

\* C15: lookups are started in input order, each position at most once: the
\* started positions are always exactly 1..currentIndex, the tasks array is
\* strictly increasing, currentIndex never decreases, and a step that
\* starts a lookup starts the one at position currentIndex + 1 and no other.
C15_LaunchInInputOrder ==
    /\ [](/\ \A i \in Positions : (lookup[i] # "idle") <=> (i <= currentIndex)
          /\ \A k \in 1..Len(tasks) : \A l \in 1..Len(tasks) :
                k < l => tasks[k] < tasks[l])
    /\ [][/\ currentIndex' >= currentIndex
          /\ \A i \in Positions :
                /\ lookup'[i] = "inflight" => lookup[i] \in {"idle", "inflight"}
                /\ (lookup[i] = "idle" /\ lookup'[i] # "idle")
                      => (i = currentIndex + 1 /\ currentIndex' = i)]_vars

C15_Witness ==
    /\ currentIndex = Len(names)
    /\ Len(names) >= 4
    /\ concurrencyLimit = 2
    /\ Len(tasks) = 2
    /\ lookup[1] = "inflight"
    /\ lookup[Len(names)] = "inflight"

\* C16: if the scan's ready continuations run and every started lookup
\* eventually completes, every scan eventually closes the stream.
C16_EventuallyClosed == <>closed

C16_Witness ==
    /\ closed
    /\ Len(names) >= 3
    /\ currentIndex = Len(names)
    /\ concurrencyLimit < Len(names)
    /\ InFlight = {}

\* C17: every candidate line on the stream is the line of an input
\* candidate whose lookup completed as available, no more lines are written
\* than positions completed as available, and foundCount always equals the
\* number of candidate lines written.
C17_FoundCountEqualsLines ==
    /\ foundCount = Len(CandidateLines)
    /\ \A k \in 1..Len(CandidateLines) :
          \E i \in Positions :
              lookup[i] = "available" /\ CandidateLines[k] = Line(i)
    /\ Len(CandidateLines) <= Cardinality({i \in Positions : lookup[i] = "available"})

\* the filler phrases of the candidate definition
HereAre == <<"h", "e", "r", "e", " ", "a", "r", "e">>

BasedOn == <<"b", "a", "s", "e", "d", " ", "o", "n">>

\* the retention rule as the claim states it
RetainedByRule(line) ==
    /\ Len(line) > 0
    /\ Len(line) <= 30
    /\ \A k \in 1..Len(line) : line[k] \in AllowedChars
    /\ EndsWith(ToLower(line), DotCom)
    /\ ~Includes(ToLower(line), HereAre)
    /\ ~Includes(ToLower(line), BasedOn)

\* C11: once extraction is done, the candidates are exactly the stripped
\* and trimmed lines, in order, that are non-empty, at most 30 characters
\* long, made of [a-zA-Z0-9.-] only, end in ".com" case-insensitively and
\* contain neither "here are" nor "based on"; no candidate contains a
\* filler phrase.
C11_RetainedIffRule ==
    pc = "extracted" =>
        /\ names = SelectSeq(cleaned, RetainedByRule)
        /\ \A k \in 1..Len(names) :
              /\ ~Includes(ToLower(names[k]), HereAre)
              /\ ~Includes(ToLower(names[k]), BasedOn)

C11_Witness ==
    /\ pc = "extracted"
    /\ Len(cleaned) = 2
    /\ Includes(ToLower(cleaned[1]), BasedOn)
    /\ EndsWith(cleaned[1], DotCom)
    /\ Len(names) = 1
    /\ names[1] = cleaned[2]

\* the line starts with a run of hyphens, digits and periods that is
\* directly followed by a character that is not white space
RunThenNameChar(line) ==
    LET j == SkipClass(line, 1, DecorationChars)
    IN  j > 1 /\ j <= Len(line) /\ line[j] \notin SpaceChars

\* C14: a leading run of hyphens, digits and periods is removed only when
\* white space follows it: a line whose run is directly followed by a name
\* character ("4you.com", "1-2.com") comes out of the map step merely
\* trimmed, and is retained as that same string when it passes the filters.
C14_StripOnlyBeforeSpace ==
    \A k \in 1..Len(cleaned) :
        RunThenNameChar(rawLines[k]) =>
            /\ cleaned[k] = Trim(rawLines[k])
            /\ (pc = "extracted" /\ Keep(Trim(rawLines[k])))
                  => \E n \in 1..Len(names) : names[n] = Trim(rawLines[k])

\* a trimmed line that is one of the handler's sentinel lines
IsSentinelLine(clean) ==
    clean \in {Split(SentinelNoNamesChars)[1], Split(SentinelNoneFoundChars)[1]}

\* the complete non-empty lines the page has received so far, trimmed
ReceivedLines ==
    LET parts == Split(SubSeq(stream, 1, delivered))
    IN  SelectSeq(TrimAll(SubSeq(parts, 1, Len(parts) - 1)),
                  LAMBDA clean : clean # <<>>)

\* C18: the rows of the page are exactly the complete non-empty lines
\* received so far that are not a sentinel line, and once a sentinel line
\* was received the error/notice state is set to it.
C18_SentinelIsNoticeNotRow ==
    /\ domains = SelectSeq(ReceivedLines, LAMBDA clean : ~IsSentinelLine(clean))
    /\ \A k \in 1..Len(ReceivedLines) :
          IsSentinelLine(ReceivedLines[k]) => errorMsg = ReceivedLines[k]
====
